---- MODULE Spec2Model ----
(***************************************************************************)
(* A model of git_remote_run.remote.Remote: the tunnel (run), the sudo     *)
(* negotiation (sudo) and the run-then-escalate policy (run_or_sudo); of   *)
(* the git-remote-run command that calls them (git_remote_run.run); and of *)
(* the trampoline, the shell text run() has the remote host execute.       *)
(*                                                                         *)
(* Text (str) and byte strings (bytes) are sequences of tokens.  A token   *)
(* of one character is that character; the fixed pieces of the format      *)
(* strings of remote.py are single longer tokens; "xC3", "xA9" and "xFF"   *)
(* are the raw bytes 0xC3, 0xA9 and 0xFF and "BQ" is the backquote.  A     *)
(* Python dict is a function whose domain is its set of keys.  An optional *)
(* value is <<>> (None) or <<v>>.                                          *)
(***************************************************************************)
EXTENDS Integers, Sequences, FiniteSets, TLC

VARIABLES
    name,       \* Remote.name
    pc,         \* where the caller's current call stands
    call,       \* the entry point called and its arguments
    sudo_args,  \* the arguments sudo() was entered with, <<>> outside sudo
    script,     \* sudo()'s local `script` after lines 117-120
    result,     \* run_or_sudo()'s local `result` once run() returned, else <<>>
    sudo_result,\* sudo()'s local `result` once a run() returned, else <<>>
    password,   \* sudo()'s local `password`, <<>> before the prompt
    sudo_out,   \* what sudo() returned or raised, <<>> before that
    outcome,    \* what the entry point returned or raised, <<>> before that
    events,     \* history of the call: tunnel invocations, prompts, sudo entry
    cli,        \* the git-remote-run command: its arguments and how it ended
    prev,       \* the script and the kind of outcome of the last call, if a run()
    tramp       \* the trampoline on the remote host: its place, files and steps

vars == <<name, pc, call, sudo_args, script, result, sudo_result, password,
          sudo_out, outcome, events, cli, prev, tramp>>

-----------------------------------------------------------------------------
(* Bounds and input sets *)

\* Longest archive (number of members) a client process returns in SpecDecode.
MaxEntries == 3

\* Largest magnitude of the integers whose decimal form the claims talk about.
MaxInt == 12

\* Largest exit status a user script ends with on the remote host.
MaxStatus == 11

RemoteNames == { <<"origin">> }

Scripts == { <<"i", "d">>, <<"e", "c", "h", "o", " ", "'", "x", "'">> }

Users == { <<>>, << <<"w", "w", "w">> >> }

Passwords == { <<"p", "w">>, <<"a", "'", "b">> }

-----------------------------------------------------------------------------
(* Python built-ins and library functions used by remote.py *)

DigitChars == <<"0", "1", "2", "3", "4", "5", "6", "7", "8", "9">>

DigitSet == { DigitChars[i] : i \in 1..Len(DigitChars) }

DigitVal(c) == (CHOOSE i \in 1..Len(DigitChars) : DigitChars[i] = c) - 1

Whitespace == { " ", "\t", "\n", "\r", "\f" }

\* bytes.strip() as int() applies it: drop leading and trailing whitespace.
Strip(s) ==
    LET keep == { i \in 1..Len(s) : s[i] \notin Whitespace }
    IN  IF keep = {} THEN <<>>
        ELSE SubSeq(s, CHOOSE i \in keep : \A j \in keep : i <= j,
                       CHOOSE i \in keep : \A j \in keep : j <= i)

\* The digits part of an int() literal: digits, single underscores between them.
DigitsOk(b) ==
    /\ b # <<>>
    /\ \A i \in 1..Len(b) : b[i] \in DigitSet \cup {"_"}
    /\ b[1] # "_"
    /\ b[Len(b)] # "_"
    /\ \A i \in 1..(Len(b) - 1) : ~(b[i] = "_" /\ b[i + 1] = "_")

RECURSIVE DigitsValue(_, _)
DigitsValue(b, acc) ==
    IF b = <<>> THEN acc
    ELSE IF Head(b) = "_" THEN DigitsValue(Tail(b), acc)
    ELSE DigitsValue(Tail(b), 10 * acc + DigitVal(Head(b)))

\* A variant of int() that knows no sign.
PyIntUnsigned(value) ==
    LET b == Strip(value)
    IN  IF DigitsOk(b) THEN [ok |-> TRUE, val |-> DigitsValue(b, 0)]
        ELSE [ok |-> FALSE, val |-> 0]

\* int(value) for a bytes value, base 10: ok = FALSE stands for ValueError.
PyInt(value) ==
    LET s == Strip(value)
        signed == s # <<>> /\ s[1] \in {"+", "-"}
        b == IF signed THEN Tail(s) ELSE s
    IN  IF DigitsOk(b)
        THEN [ok |-> TRUE,
              val |-> IF signed /\ s[1] = "-" THEN 0 - DigitsValue(b, 0)
                      ELSE DigitsValue(b, 0)]
        ELSE [ok |-> FALSE, val |-> 0]

\* The characters shlex.quote leaves alone: [a-zA-Z0-9_@%+=:,./-], as far as
\* the model's texts use them.
SafeChars ==
    DigitSet \cup { "a", "b", "c", "d", "e", "h", "i", "o", "p", "w", "x",
                    "_", "@", "%", "+", "=", ":", ",", ".", "/", "-" }

RECURSIVE ReplaceQuotes(_)
\* s.replace("'", "'\"'\"'")
ReplaceQuotes(s) ==
    IF s = <<>> THEN <<>>
    ELSE IF Head(s) = "'"
         THEN <<"'", "\"", "'", "\"", "'">> \o ReplaceQuotes(Tail(s))
         ELSE <<Head(s)>> \o ReplaceQuotes(Tail(s))

\* shlex.quote(s)
quote(s) ==
    IF s = <<>> THEN <<"'", "'">>
    ELSE IF \A i \in 1..Len(s) : s[i] \in SafeChars THEN s
    ELSE <<"'">> \o ReplaceQuotes(s) \o <<"'">>

AsciiBytes == SafeChars \cup Whitespace \cup { "'", "\"", "!", "?" }

RECURSIVE Utf8Decode(_)
\* bytes.decode('utf-8') over the model's bytes: ASCII bytes decode to
\* themselves, 0xC3 0xA9 to one character, anything else is
\* UnicodeDecodeError (ok = FALSE).
Utf8Decode(b) ==
    IF b = <<>> THEN [ok |-> TRUE, text |-> <<>>]
    ELSE IF Head(b) \in AsciiBytes
         THEN LET r == Utf8Decode(Tail(b))
              IN  [ok |-> r.ok, text |-> <<Head(b)>> \o r.text]
    ELSE IF Head(b) = "xC3" /\ Len(b) >= 2 /\ b[2] = "xA9"
         THEN LET r == Utf8Decode(SubSeq(b, 3, Len(b)))
              IN  [ok |-> r.ok, text |-> <<"U+00E9">> \o r.text]
    ELSE [ok |-> FALSE, text |-> <<>>]

\* d[k] = v on a dict
DictSet(d, k, v) ==
    [x \in (DOMAIN d) \cup {k} |-> IF x = k THEN v ELSE d[x]]

-----------------------------------------------------------------------------
(* What a call returns or raises *)

\* A returned value.
Returned(v) == [kind |-> "result", value |-> v]

\* A raised exception: its type, the statement that raised it (at) and its
\* message, <<>> when it has none.
Raised(type, at, msg) == [kind |-> "error", type |-> type, at |-> at, msg |-> msg]

-----------------------------------------------------------------------------
(* Remote.run: the tunnel.  proc is the CompletedProcess of `git archive`:   *)
(* returncode, stderr (bytes) and stdout, which is either no tar archive at  *)
(* all (tar = FALSE) or the archive with the given members, in order.        *)

\* A launch check that looks at the exit status alone.
LaunchCheckReturncodeOnly(proc) ==
    IF proc.returncode # 0
    THEN LET t == Utf8Decode(proc.stderr)
         IN  IF t.ok THEN << Raised("AssertionError", "launch", <<t.text>>) >>
             ELSE << Raised("UnicodeDecodeError", "launch", <<>>) >>
    ELSE <<>>

\* The two assert statements after subprocess.run: <<>> when both pass, else
\* the exception raised.  The first carries the decoded stderr as its message
\* (decoding may itself raise), the second carries no message.
LaunchCheck(proc) ==
    IF proc.returncode # 0
    THEN LET t == Utf8Decode(proc.stderr)
         IN  IF t.ok THEN << Raised("AssertionError", "launch", <<t.text>>) >>
             ELSE << Raised("UnicodeDecodeError", "launch", <<>>) >>
    ELSE IF proc.stderr # <<>>
    THEN << Raised("AssertionError", "launch", <<>>) >>
    ELSE <<>>

\* tar.extractfile(name).read(): TarFile.getmember returns the last member of
\* that name.
ExtractFile(members, nm) ==
    LET at == { i \in 1..Len(members) : members[i].name = nm }
    IN  members[CHOOSE i \in at : \A j \in at : j <= i].data

RECURSIVE ReadMembers(_, _, _)
\* The loop over tar.getnames(), from member i on, filling inner_result.
ReadMembers(members, i, inner_result) ==
    IF i > Len(members) THEN Returned(inner_result)
    ELSE LET nm == members[i].name
             value == ExtractFile(members, nm)
         IN  IF nm = "exitcode"
             THEN LET n == PyInt(value)
                  IN  IF n.ok
                      THEN ReadMembers(members, i + 1, DictSet(inner_result, nm, n.val))
                      ELSE Raised("ValueError", "decode", <<>>)
             ELSE ReadMembers(members, i + 1, DictSet(inner_result, nm, value))

\* Reading the received archive: tarfile.open raises ReadError on bytes that
\* are no tar archive.
Decode(cmd, stdout) ==
    IF ~stdout.tar THEN Raised("ReadError", "decode", <<>>)
    ELSE ReadMembers(stdout.members, 1, [k \in {"cmd"} |-> cmd])

\* run(script) given what the client process did: what run returns or raises,
\* and whether the captured output reached the archive reader.
RunOp(cmd, proc) ==
    LET e == LaunchCheck(proc)
    IN  IF e # <<>> THEN [out |-> e[1], decoded |-> FALSE]
        ELSE [out |-> Decode(cmd, proc.stdout), decoded |-> TRUE]

\* The history entry of one tunnel invocation.
RunEvent(cmd, proc) ==
    LET r == RunOp(cmd, proc)
    IN  [type |-> "run", script |-> cmd, proc |-> proc,
         decoded |-> r.decoded, out |-> r.out]

-----------------------------------------------------------------------------
(* Remote.sudo and Remote.run_or_sudo: the pieces *)

\* Python truth of an optional string argument (None and "" are false).
Truthy(opt) == opt # <<>> /\ opt[1] # <<>>

\* sudo()'s local script after `if shell` and `if user`.
WrapScript(cmd, shell, user) ==
    LET s1 == IF shell THEN <<"bash -c ">> \o quote(cmd) ELSE cmd
    IN  IF Truthy(user) THEN <<"-u ">> \o user[1] \o <<" ">> \o s1 ELSE s1

\* The first invocation: sudo is told to run /usr/bin/touch on the prompt,
\* which names the sentinel file, when it needs a password.
ProbeInvocation(wrapped) ==
    <<"SUDO_PROMPT=\"$tempdir/sudo-needs-password\" ",
      "SUDO_ASKPASS=\"/usr/bin/touch\" ",
      "sudo --preserve-env --askpass ">> \o wrapped

\* A second invocation that keeps the probe's settings after the pipe.
RetryInvocationAskpass(pw, wrapped) ==
    <<"echo ">> \o quote(pw) \o <<" | ">> \o ProbeInvocation(wrapped)

\* The second invocation: the password is piped to sudo --stdin.
RetryInvocation(pw, wrapped) ==
    <<"echo ">> \o quote(pw) \o <<" | sudo --preserve-env --stdin ">> \o wrapped

\* The text getpass shows.
PromptText(wrapped, remote) ==
    <<"Enter your password for running ", "BQ", "sudo ">> \o wrapped
        \o <<"BQ", " on ">> \o remote \o <<":">>

\* A sentinel test that takes the stderr entry for the sentinel.
NeedsPasswordStderr(res) == "stderr" \in DOMAIN res

\* 'sudo-needs-password' in result
NeedsPassword(res) == "sudo-needs-password" \in DOMAIN res

\* An escalation test that escalates on success.
NeedsSudoInverted(res) == res["exitcode"] = 0

\* The truth of result['exitcode'] (the key is known to be there).
NeedsSudo(res) == res["exitcode"] # 0

\* A call of sudo that leaves the shell flag at its default.
RosSudoArgsDefaultShell(cmd, shell) == [script |-> cmd, shell |-> TRUE, user |-> <<>>]

\* self.sudo(script, shell=shell): the arguments run_or_sudo passes on.
RosSudoArgs(cmd, shell) == [script |-> cmd, shell |-> shell, user |-> <<>>]

\* A run_or_sudo that escalates when the unprivileged run raised.
RosNextEscalateOnError(out) ==
    IF out.kind = "error" THEN "sudo"
    ELSE IF "exitcode" \notin DOMAIN out.value THEN "keyerror"
    ELSE IF NeedsSudo(out.value) THEN "sudo"
    ELSE "return"

\* What run_or_sudo does with the outcome of its run(script): an exception
\* propagates, a result without 'exitcode' raises KeyError at the test, a true
\* exit code enters sudo, zero returns the result.
RosNext(out) ==
    IF out.kind = "error" THEN "raise"
    ELSE IF "exitcode" \notin DOMAIN out.value THEN "keyerror"
    ELSE IF NeedsSudo(out.value) THEN "sudo"
    ELSE "return"

\* result = self.sudo(...); return result: what run_or_sudo ends with after sudo
\* ended with from_sudo.
RosFinal(first, from_sudo) == from_sudo

\* What sudo does with the outcome of the probe.
SudoNext(out) ==
    IF out.kind = "error" THEN "raise"
    ELSE IF NeedsPassword(out.value) THEN "getpass"
    ELSE "return"

\* password = getpass(...): the line read, or EOFError when there is none;
\* having no terminal changes where the line is read from, not the outcome.
GetpassOutcome(tty, input) ==
    IF input = <<>> THEN Raised("EOFError", "getpass", <<>>)
    ELSE Returned(input[1])

\* A sudo that asks again when the retry still shows the sentinel.
RetryNextAskAgain(out) ==
    IF out.kind = "result" /\ NeedsPassword(out.value) THEN "getpass" ELSE "return"

\* What sudo does with the outcome of the retry: it ends with it, whatever it is.
RetryNext(out) == "return"

\* A method that renames the Remote it is called on.
SelfAfterRenamed(nm) == <<"other">>

\* self.name after a step of run, sudo or run_or_sudo: none assigns to self.
SelfAfter(nm) == nm

\* What the entry point ends with when sudo ends with out.
Final(c, first, out) == IF c.fn = "run_or_sudo" THEN RosFinal(first, out) ELSE out

-----------------------------------------------------------------------------
(* The trampoline: the shell text run() passes as --exec, on the remote host *)

\* What a user script does once it stands between the parentheses of the
\* trampoline: it ends with the status of its last command ("returns"), it
\* calls exit, it kills the shell that runs the trampoline (kill -9 $$), it is
\* no complete command (an unclosed quote), or it never ends.
ScriptBehaviours ==
    [kind : {"returns", "exit"}, status : 0..MaxStatus]
        \cup { [kind |-> k, status |-> 0] : k \in {"kill", "syntax", "hang"} }

\* What the trampoline's shell gets from `( script ) > stdout 2> stderr`: the
\* parentheses make a sub-shell, so exit ends the sub-shell only and $? is the
\* script's status; a killed shell is gone; bash gives up a file at a command
\* it cannot parse; a script that never ends keeps the shell waiting.
ScriptEnds(b) ==
    IF b.kind \in {"returns", "exit"} THEN "status"
    ELSE IF b.kind = "kill" THEN "killed"
    ELSE IF b.kind = "syntax" THEN "aborted"
    ELSE "running"

RECURSIVE NatDigits(_)
\* The decimal digits of a natural number, as the shell expands $?.
NatDigits(n) ==
    IF n < 10 THEN <<DigitChars[n + 1]>>
    ELSE NatDigits(n \div 10) \o <<DigitChars[(n % 10) + 1]>>

\* An exitcode file written by echo without -n.
ExitcodeFileNewline(status) == NatDigits(status) \o <<"\n">>

\* echo -n "$?" > "$tempdir"/exitcode
ExitcodeFile(status) == NatDigits(status)

-----------------------------------------------------------------------------
(* The git-remote-run command (git_remote_run.run) *)

\* What the command line can give: --sudo, --sudo-if-needed, --no-sudo-shell
\* (sudo_shell = FALSE), --sudo-user and the actions, in order.
CliArgs ==
    [sudo : BOOLEAN, sudo_if_needed : BOOLEAN, sudo_shell : BOOLEAN,
     sudo_user : Users,
     actions : { <<>>, << <<"i", "d">> >>,
                 << <<"i", "d">>, <<"e", "c", "h", "o", " ", "'", "x", "'">> >> }]

RECURSIVE JoinActions(_)
\* "\n\n".join(args.actions)
JoinActions(actions) ==
    IF actions = <<>> THEN <<>>
    ELSE IF Len(actions) = 1 THEN actions[1]
    ELSE actions[1] \o <<"\n", "\n">> \o JoinActions(Tail(actions))

\* What the command does with its arguments: argparse refuses --sudo together
\* with --sudo-if-needed; the sudo options need one of the two; an action is
\* required; then the method is chosen.
CliDispatch(a) ==
    IF a.sudo /\ a.sudo_if_needed THEN "usage"
    ELSE IF ~a.sudo /\ ~a.sudo_if_needed /\ (~a.sudo_shell \/ Truthy(a.sudo_user))
    THEN "usage"
    ELSE IF a.actions = <<>> THEN "usage"
    ELSE IF a.sudo THEN "sudo"
    ELSE IF a.sudo_if_needed THEN "sudo_if_needed"
    ELSE "run"

\* The end of the command given what the method returned or raised: an
\* exception goes through; the result is indexed by stderr, stdout and
\* exitcode, in that order, and the exit code is returned.
CliExit(out) ==
    IF out.kind = "error" THEN out
    ELSE IF "stderr" \notin DOMAIN out.value THEN Raised("KeyError", "cli", <<"stderr">>)
    ELSE IF "stdout" \notin DOMAIN out.value THEN Raised("KeyError", "cli", <<"stdout">>)
    ELSE IF "exitcode" \notin DOMAIN out.value
    THEN Raised("KeyError", "cli", <<"exitcode">>)
    ELSE Returned(out.value["exitcode"])

-----------------------------------------------------------------------------
(* What the client process can hand back *)

Member(nm, data) == [name |-> nm, data |-> data]

Tar(members) == [tar |-> TRUE, members |-> members]

NotTar == [tar |-> FALSE, members |-> <<>>]

Proc(rc, out, err) == [returncode |-> rc, stdout |-> out, stderr |-> err]

\* The members the archives of SpecDecode are built from.
DecodeMembers ==
    { Member("stdout", <<>>), Member("stdout", <<"h", "i">>),
      Member("stderr", <<>>), Member("stderr", <<"e">>),
      Member("exitcode", <<"0">>), Member("exitcode", <<"-", "1">>),
      Member("exitcode", <<"1", "2">>), Member("exitcode", <<"a", "b", "c">>),
      Member("exitcode", <<" ", "7", "\n">>),
      Member("sudo-needs-password", <<>>), Member("cmd", <<"x">>) }

SeqsUpTo(S, n) == UNION { [1..k -> S] : k \in 0..n }

\* What a failed client leaves on its error channel.
Diagnostics == { <<"w">>, <<"xC3", "xA9">>, <<"xFF">>, <<"w", "xFF">> }

GoodArchive ==
    Tar(<<Member("stdout", <<"h", "i">>), Member("stderr", <<>>),
          Member("exitcode", <<"0">>)>>)

\* Clients that exited nonzero or wrote diagnostics, with and without an
\* archive on their output.
FailedProcs ==
    { Proc(rc, out, err) : rc \in {0, 1, 128}, out \in {NotTar, GoodArchive},
                           err \in Diagnostics \cup {<<>>} }
        \ { Proc(0, out, <<>>) : out \in {NotTar, GoodArchive} }

\* SpecDecode: every archive of up to MaxEntries members, and the failures.
DecodeProcs ==
    { Proc(0, Tar(m), <<>>) : m \in SeqsUpTo(DecodeMembers, MaxEntries) }
        \cup { Proc(0, NotTar, <<>>) } \cup FailedProcs

\* Spec: the archives the negotiation tells apart (exit code zero, nonzero or
\* missing; sentinel there or not), an unreadable one, and failed clients.
NegArchives ==
    { <<Member("stdout", <<"h", "i">>), Member("stderr", <<>>),
        Member("exitcode", <<"0">>)>>,
      <<Member("stdout", <<>>), Member("stderr", <<"e">>),
        Member("exitcode", <<"1", "2">>)>>,
      <<Member("exitcode", <<"-", "1">>)>>,
      <<Member("stdout", <<>>), Member("stderr", <<"e">>),
        Member("exitcode", <<"1", "2">>), Member("sudo-needs-password", <<>>)>>,
      <<Member("sudo-needs-password", <<>>), Member("stdout", <<>>),
        Member("stderr", <<>>), Member("exitcode", <<"0">>)>>,
      <<Member("sudo-needs-password", <<>>)>>,
      <<Member("stdout", <<"h", "i">>)>>,
      <<Member("exitcode", <<"a", "b", "c">>)>> }

NegProcs ==
    { Proc(0, Tar(m), <<>>) : m \in NegArchives }
        \cup { Proc(0, NotTar, <<>>), Proc(1, NotTar, <<"w">>),
               Proc(0, GoodArchive, <<"w">>) }

-----------------------------------------------------------------------------
(* The state machine: a caller makes one call after another on the Remote *)

NoCall == [fn |-> "none"]

\* No command is running.
NoCli == [args |-> <<>>, out |-> <<>>]

\* No trampoline is running.
NoTramp ==
    [pc |-> "none", script |-> [kind |-> "none", status |-> 0], files |-> {},
     streams |-> FALSE, exitcode |-> <<>>, repo |-> FALSE, committed |-> FALSE,
     served |-> FALSE, log |-> <<>>]

Init ==
    /\ name \in RemoteNames
    /\ pc = "idle"
    /\ call = NoCall
    /\ sudo_args = <<>>
    /\ script = <<>>
    /\ result = <<>>
    /\ sudo_result = <<>>
    /\ password = <<>>
    /\ sudo_out = <<>>
    /\ outcome = <<>>
    /\ events = <<>>
    /\ cli = NoCli
    /\ prev = <<>>
    /\ tramp = NoTramp

\* The caller calls remote.run(script).
CallRun ==
    /\ pc = "idle"
    /\ \E s \in Scripts : call' = [fn |-> "run", script |-> s]
    /\ pc' = "run"
    /\ UNCHANGED <<name, sudo_args, script, result, sudo_result, password,
                   sudo_out, outcome, events>>
    /\ UNCHANGED <<cli, prev, tramp>>

\* The caller calls remote.sudo(script, shell, user).
CallSudo ==
    /\ pc = "idle"
    /\ \E s \in Scripts, sh \in BOOLEAN, u \in Users :
          /\ call' = [fn |-> "sudo", script |-> s, shell |-> sh, user |-> u]
          /\ sudo_args' = << [script |-> s, shell |-> sh, user |-> u] >>
          /\ events' = << [type |-> "sudo",
                           args |-> [script |-> s, shell |-> sh, user |-> u]] >>
    /\ pc' = "sudo"
    /\ UNCHANGED <<name, script, result, sudo_result, password, sudo_out, outcome>>
    /\ UNCHANGED <<cli, prev, tramp>>

\* The caller calls remote.run_or_sudo(script, shell).
CallRunOrSudo ==
    /\ pc = "idle"
    /\ \E s \in Scripts, sh \in BOOLEAN :
          call' = [fn |-> "run_or_sudo", script |-> s, shell |-> sh]
    /\ pc' = "run_or_sudo"
    /\ UNCHANGED <<name, sudo_args, script, result, sudo_result, password,
                   sudo_out, outcome, events>>
    /\ UNCHANGED <<cli, prev, tramp>>

\* run(script) called directly: one client process, then the checks and the
\* archive reader.
Run(procs) ==
    /\ pc = "run"
    /\ \E proc \in procs :
          LET ev == RunEvent(call.script, proc)
          IN  /\ events' = Append(events, ev)
              /\ outcome' = <<ev.out>>
    /\ pc' = "done"
    /\ name' = SelfAfter(name)
    /\ UNCHANGED <<call, sudo_args, script, result, sudo_result, password,
                   sudo_out>>
    /\ UNCHANGED <<cli, prev, tramp>>

\* run_or_sudo: the unprivileged run and the test of its exit code.
RosRun(procs) ==
    /\ pc = "run_or_sudo"
    /\ \E proc \in procs :
          LET ev == RunEvent(call.script, proc)
              nxt == RosNext(ev.out)
              args == RosSudoArgs(call.script, call.shell)
          IN  /\ result' = IF ev.out.kind = "result" THEN <<ev.out>> ELSE <<>>
              /\ IF nxt = "sudo"
                 THEN /\ events' = events \o <<ev, [type |-> "sudo", args |-> args]>>
                      /\ sudo_args' = <<args>>
                      /\ pc' = "sudo"
                      /\ outcome' = outcome
                 ELSE /\ events' = Append(events, ev)
                      /\ sudo_args' = sudo_args
                      /\ pc' = "done"
                      /\ outcome' =
                            IF nxt = "keyerror"
                            THEN << Raised("KeyError", "run_or_sudo", <<"exitcode">>) >>
                            ELSE <<ev.out>>
    /\ name' = SelfAfter(name)
    /\ UNCHANGED <<call, script, sudo_result, password, sudo_out>>
    /\ UNCHANGED <<cli, prev, tramp>>

\* sudo: wrap the script, run the probe, look for the sentinel.
SudoProbe(procs) ==
    /\ pc = "sudo"
    /\ \E proc \in procs :
          LET a == sudo_args[1]
              wrapped == WrapScript(a.script, a.shell, a.user)
              ev == RunEvent(ProbeInvocation(wrapped), proc)
              nxt == SudoNext(ev.out)
          IN  /\ script' = wrapped
              /\ events' = Append(events, ev)
              /\ sudo_result' = IF ev.out.kind = "result" THEN <<ev.out>> ELSE <<>>
              /\ IF nxt = "getpass"
                 THEN /\ pc' = "getpass"
                      /\ UNCHANGED <<sudo_out, outcome>>
                 ELSE /\ pc' = "done"
                      /\ sudo_out' = <<ev.out>>
                      /\ outcome' = << Final(call, result, ev.out) >>
    /\ name' = SelfAfter(name)
    /\ UNCHANGED <<call, sudo_args, result, password>>
    /\ UNCHANGED <<cli, prev, tramp>>

\* sudo: getpass asks the local user.  With a terminal (tty) it reads what
\* is typed; without one it falls back to reading a line from stdin.  input
\* is the line it gets, <<>> at end of file.
Getpass ==
    /\ pc = "getpass"
    /\ \E tty \in BOOLEAN, input \in {<<>>} \cup { <<pw>> : pw \in Passwords } :
          LET text == PromptText(script, name)
              out == GetpassOutcome(tty, input)
              ev == [type |-> "getpass", text |-> text, tty |-> tty,
                     input |-> input, out |-> out]
          IN  /\ events' = Append(events, ev)
              /\ IF out.kind = "result"
                 THEN /\ password' = <<out.value>>
                      /\ pc' = "retry"
                      /\ UNCHANGED <<sudo_out, outcome>>
                 ELSE /\ pc' = "done"
                      /\ sudo_out' = <<out>>
                      /\ outcome' = << Final(call, result, out) >>
                      /\ UNCHANGED password
    /\ name' = SelfAfter(name)
    /\ UNCHANGED <<call, sudo_args, script, result, sudo_result>>
    /\ UNCHANGED <<cli, prev, tramp>>

\* sudo: the second run, with the password on sudo's input; whatever it gives
\* is what sudo gives.
SudoRetry(procs) ==
    /\ pc = "retry"
    /\ \E proc \in procs :
          LET ev == RunEvent(RetryInvocation(password[1], script), proc)
          IN  /\ events' = Append(events, ev)
              /\ sudo_result' = IF ev.out.kind = "result" THEN <<ev.out>>
                                ELSE sudo_result
              /\ IF RetryNext(ev.out) = "getpass"
                 THEN /\ pc' = "getpass"
                      /\ UNCHANGED <<sudo_out, outcome>>
                 ELSE /\ pc' = "done"
                      /\ sudo_out' = <<ev.out>>
                      /\ outcome' = << Final(call, result, ev.out) >>
    /\ name' = SelfAfter(name)
    /\ UNCHANGED <<call, sudo_args, script, result, password>>
    /\ UNCHANGED <<cli, prev, tramp>>

\* subprocess.run is called without a timeout: while the client process does
\* not complete, run() waits, and nothing else happens in the call.
Hang ==
    /\ pc \in {"run", "run_or_sudo", "sudo", "retry"}
    /\ pc' = "blocked"
    /\ UNCHANGED <<name, call, sudo_args, script, result, sudo_result, password,
                   sudo_out, outcome, events, cli, prev, tramp>>

\* The git-remote-run command is started: the arguments are checked and the
\* commands joined, then one method of the Remote is called.
CliStart ==
    /\ pc = "idle"
    /\ \E a \in CliArgs :
          LET d == CliDispatch(a)
              cmd == JoinActions(a.actions)
              sargs == [script |-> cmd, shell |-> a.sudo_shell, user |-> a.sudo_user]
          IN  /\ cli' = [args |-> <<a>>,
                         out |-> IF d = "usage"
                                 THEN << Raised("SystemExit", "cli", <<"2">>) >>
                                 ELSE IF d = "sudo_if_needed"
                                 THEN << Raised("AttributeError", "cli",
                                                <<"sudo_if_needed">>) >>
                                 ELSE <<>>]
              /\ IF d = "sudo"
                 THEN /\ call' = [fn |-> "sudo", script |-> cmd,
                                  shell |-> a.sudo_shell, user |-> a.sudo_user]
                      /\ sudo_args' = <<sargs>>
                      /\ events' = << [type |-> "sudo", args |-> sargs] >>
                      /\ pc' = "sudo"
                 ELSE IF d = "run"
                 THEN /\ call' = [fn |-> "run", script |-> cmd]
                      /\ pc' = "run"
                      /\ UNCHANGED <<sudo_args, events>>
                 ELSE /\ pc' = "cli_done"
                      /\ UNCHANGED <<call, sudo_args, events>>
    /\ UNCHANGED <<name, script, result, sudo_result, password, sudo_out,
                   outcome, prev, tramp>>

\* The method called by the command is over: the command writes the streams
\* and ends with the exit code, or with the exception.
CliFinish ==
    /\ pc = "done"
    /\ cli.args # <<>>
    /\ cli.out = <<>>
    /\ cli' = [cli EXCEPT !.out = << CliExit(outcome[1]) >>]
    /\ UNCHANGED <<name, pc, call, sudo_args, script, result, sudo_result,
                   password, sudo_out, outcome, events, prev, tramp>>

\* The remote shell starts the --exec text: mktemp makes the scratch file, cat
\* fills it with the inner script, the user script in it, and bash is started
\* on it.
TrampStart ==
    /\ tramp.pc = "none"
    /\ \E b \in ScriptBehaviours :
          tramp' = [tramp EXCEPT !.pc = "inner", !.script = b,
                                 !.files = {"scriptfile"},
                                 !.log = <<"mktemp", "cat", "bash">>]
    /\ UNCHANGED <<name, pc, call, sudo_args, script, result, sudo_result,
                   password, sudo_out, outcome, events, cli, prev>>

\* export REPO_DIR, cwd, tempdir=`mktemp -d`, git init "$tempdir": git init
\* may fail; there is no set -e, so the next line runs all the same.
TrampTempRepo ==
    /\ tramp.pc = "inner"
    /\ \E ok \in BOOLEAN :
          tramp' = [tramp EXCEPT !.pc = "script",
                                 !.files = @ \cup {"tempdir"},
                                 !.repo = ok,
                                 !.log = @ \o <<"mktemp -d", "git init">>]
    /\ UNCHANGED <<name, pc, call, sudo_args, script, result, sudo_result,
                   password, sudo_out, outcome, events, cli, prev>>

\* ( script ) > "$tempdir"/stdout 2> "$tempdir"/stderr
TrampScript ==
    /\ tramp.pc = "script"
    /\ LET end == ScriptEnds(tramp.script)
       IN  tramp' = IF end = "aborted"
                    THEN [tramp EXCEPT !.pc = "aborted"]
                    ELSE [tramp EXCEPT !.pc = IF end = "status" THEN "exitcode" ELSE end,
                                       !.streams = TRUE,
                                       !.log = @ \o <<"script">>]
    /\ UNCHANGED <<name, pc, call, sudo_args, script, result, sudo_result,
                   password, sudo_out, outcome, events, cli, prev>>

\* echo -n "$?" > "$tempdir"/exitcode
TrampExitcode ==
    /\ tramp.pc = "exitcode"
    /\ tramp' = [tramp EXCEPT !.pc = "commit",
                              !.exitcode = << ExitcodeFile(tramp.script.status) >>,
                              !.log = @ \o <<"echo -n">>]
    /\ UNCHANGED <<name, pc, call, sudo_args, script, result, sudo_result,
                   password, sudo_out, outcome, events, cli, prev>>

\* cd "$tempdir"; git add .; git commit -m init: either git command may fail
\* (no repository, no committer identity), and the next line runs all the same.
TrampCommit ==
    /\ tramp.pc = "commit"
    /\ \E added \in BOOLEAN, done \in BOOLEAN :
          tramp' = [tramp EXCEPT !.pc = "upload",
                                 !.committed = tramp.repo /\ added /\ done,
                                 !.log = @ \o <<"cd", "git add", "git commit">>]
    /\ UNCHANGED <<name, pc, call, sudo_args, script, result, sudo_result,
                   password, sudo_out, outcome, events, cli, prev>>

\* git-upload-archive . : serves the commit when there is one.
TrampUpload ==
    /\ tramp.pc = "upload"
    /\ \E ok \in BOOLEAN :
          tramp' = [tramp EXCEPT !.pc = "cleanup",
                                 !.served = tramp.committed /\ ok,
                                 !.log = @ \o <<"git-upload-archive">>]
    /\ UNCHANGED <<name, pc, call, sudo_args, script, result, sudo_result,
                   password, sudo_out, outcome, events, cli, prev>>

\* rm -rf "$tempdir"; rm $VDEPLOY_SCRIPT; the file ends and bash with it.
TrampCleanup ==
    /\ tramp.pc = "cleanup"
    /\ tramp' = [tramp EXCEPT !.pc = "ended",
                              !.files = {},
                              !.log = @ \o <<"rm -rf", "rm">>]
    /\ UNCHANGED <<name, pc, call, sudo_args, script, result, sudo_result,
                   password, sudo_out, outcome, events, cli, prev>>

\* The call (or the command) is over; its frames are gone and the caller may
\* call again.  Only the history variable prev remembers a run().
Return ==
    /\ pc \in {"done", "cli_done"}
    /\ cli.args # <<>> => cli.out # <<>>
    /\ pc' = "idle"
    /\ call' = NoCall
    /\ sudo_args' = <<>>
    /\ script' = <<>>
    /\ result' = <<>>
    /\ sudo_result' = <<>>
    /\ password' = <<>>
    /\ sudo_out' = <<>>
    /\ outcome' = <<>>
    /\ events' = <<>>
    /\ cli' = NoCli
    /\ prev' = IF pc = "done" /\ call.fn = "run" /\ cli.args = <<>>
               THEN << [script |-> call.script, kind |-> outcome[1].kind] >>
               ELSE <<>>
    /\ UNCHANGED <<name, tramp>>

Next ==
    \/ CallRun
    \/ CallSudo
    \/ CallRunOrSudo
    \/ Run(NegProcs)
    \/ RosRun(NegProcs)
    \/ SudoProbe(NegProcs)
    \/ Getpass
    \/ SudoRetry(NegProcs)
    \/ Hang
    \/ CliStart
    \/ CliFinish
    \/ Return

Spec == Init /\ [][Next]_vars

\* run alone, over every archive of the bound.
NextDecode ==
    \/ CallRun
    \/ Run(DecodeProcs)
    \/ Return

SpecDecode == Init /\ [][NextDecode]_vars

\* One execution of the trampoline on the remote host.
NextTrampoline ==
    \/ TrampStart
    \/ TrampTempRepo
    \/ TrampScript
    \/ TrampExitcode
    \/ TrampCommit
    \/ TrampUpload
    \/ TrampCleanup

SpecTrampoline == Init /\ [][NextTrampoline]_vars

-----------------------------------------------------------------------------
(* Reading the history of the current call *)

RunIdx == { i \in 1..Len(events) : events[i].type = "run" }

SudoIdx == { i \in 1..Len(events) : events[i].type = "sudo" }

PromptIdx == { i \in 1..Len(events) : events[i].type = "getpass" }

\* Where sudo was entered (when it was).
SudoAt == CHOOSE i \in SudoIdx : TRUE

\* The tunnel invocations sudo made.
SudoRuns == { i \in RunIdx : i > SudoAt }

\* sudo was entered and its probe has run.
ProbeDone == SudoIdx # {} /\ Len(events) > SudoAt

Probe == events[SudoAt + 1]

ProbeHasSentinel ==
    /\ ProbeDone
    /\ Probe.out.kind = "result"
    /\ "sudo-needs-password" \in DOMAIN Probe.out.value

\* The unprivileged run of run_or_sudo returned a result with an exit code.
FirstHasExitcode ==
    /\ call.fn = "run_or_sudo"
    /\ events # <<>>
    /\ events[1].out.kind = "result"
    /\ "exitcode" \in DOMAIN events[1].out.value

\* The client process of a tunnel invocation failed to launch cleanly.
ClientFailed(e) == e.proc.returncode # 0 \/ e.proc.stderr # <<>>

MemberNames(members) == { members[i].name : i \in 1..Len(members) }

\* The archive has exactly one member of that name.
Once(members, nm) == Cardinality({ i \in 1..Len(members) : members[i].name = nm }) = 1

DataOf(members, nm) == members[CHOOSE i \in 1..Len(members) : members[i].name = nm].data

\* The decimal ASCII form of an integer.
DecimalAscii(n) == IF n < 0 THEN <<"-">> \o NatDigits(0 - n) ELSE NatDigits(n)

-----------------------------------------------------------------------------
(* The claims *)

\* C1: when the unprivileged run of run_or_sudo returns exit code 0, that is
\* the only tunnel invocation of the call, sudo is never entered, nothing is
\* prompted for, and the call returns that very result.
C1_SuccessRunsOnce ==
    (FirstHasExitcode /\ events[1].out.value["exitcode"] = 0)
        => /\ Len(events) = 1
           /\ RunIdx = {1}
           /\ SudoIdx = {}
           /\ PromptIdx = {}
           /\ pc = "done"
           /\ outcome = <<events[1].out>>

C1_Witness ==
    /\ pc = "done"
    /\ FirstHasExitcode
    /\ events[1].out.value["exitcode"] = 0
    /\ outcome = <<events[1].out>>
    /\ outcome[1].kind = "result"

\* C2: when the unprivileged run of run_or_sudo returns a nonzero exit code,
\* sudo is entered exactly once, right after that run, with the same script and
\* shell flag; the finished call has made two or three tunnel invocations and
\* ends with what sudo ended with.
C2_FailureEscalatesOnce ==
    (FirstHasExitcode /\ events[1].out.value["exitcode"] # 0)
        => /\ SudoIdx = {2}
           /\ events[2].args.script = call.script
           /\ events[2].args.shell = call.shell
           /\ events[2].args.user = <<>>
           /\ Cardinality(RunIdx) <= 3
           /\ pc = "done" => /\ Cardinality(RunIdx) \in {2, 3}
                             /\ sudo_out # <<>>
                             /\ outcome = sudo_out

C2_Witness ==
    /\ pc = "done"
    /\ FirstHasExitcode
    /\ events[1].out.value["exitcode"] # 0
    /\ call.shell = FALSE
    /\ Cardinality(RunIdx) = 3
    /\ outcome = <<events[Len(events)].out>>
    /\ outcome[1].kind = "result"

\* C3 as stated: a finished sudo whose probe showed the sentinel has prompted
\* exactly once, made exactly one retry, and ended with the retry's outcome.
C3_AlwaysOneRetry ==
    (pc = "done" /\ ProbeHasSentinel)
        => /\ Cardinality(PromptIdx) = 1
           /\ Cardinality(SudoRuns) = 2
           /\ sudo_out = <<events[Len(events)].out>>
           /\ events[Len(events)].type = "run"

\* C3, amended: no sudo prompts more than once or makes more than two tunnel
\* invocations; a finished sudo whose probe showed the sentinel has prompted
\* exactly once; if the prompt gave a password there was exactly one retry,
\* built from that password, and sudo ended with the retry's outcome whatever
\* it was; if the prompt raised, there was no retry and sudo ended with the
\* prompt's exception.
C3_OneRetryIfPrompted ==
    /\ Cardinality(PromptIdx) <= 1
    /\ SudoIdx # {} => Cardinality(SudoRuns) <= 2
    /\ (pc = "done" /\ ProbeHasSentinel)
          => /\ PromptIdx = {SudoAt + 2}
             /\ LET asked == events[SudoAt + 2]
                    last == events[Len(events)]
                IN  IF asked.out.kind = "result"
                    THEN /\ Len(events) = SudoAt + 3
                         /\ last.type = "run"
                         /\ last.script = RetryInvocation(asked.out.value, script)
                         /\ Cardinality(SudoRuns) = 2
                         /\ sudo_out = <<last.out>>
                    ELSE /\ Len(events) = SudoAt + 2
                         /\ Cardinality(SudoRuns) = 1
                         /\ sudo_out = <<asked.out>>

\* The retry again shows the sentinel and a nonzero exit code, and is returned.
C3_Witness ==
    /\ pc = "done"
    /\ ProbeHasSentinel
    /\ Cardinality(SudoRuns) = 2
    /\ sudo_out = <<events[Len(events)].out>>
    /\ sudo_out[1].kind = "result"
    /\ {"sudo-needs-password", "exitcode"} \subseteq DOMAIN sudo_out[1].value
    /\ sudo_out[1].value["exitcode"] # 0

\* C4: a probe result without the sentinel ends sudo there: it is what sudo
\* returns, after one tunnel invocation and no prompt, whatever its exit code;
\* and sudo goes on to the prompt if and only if the probe result has an entry
\* named sudo-needs-password (stdout, stderr, exitcode and cmd never count).
C4_SentinelDecides ==
    (ProbeDone /\ Probe.out.kind = "result")
        => /\ ("sudo-needs-password" \notin DOMAIN Probe.out.value)
                => /\ pc = "done"
                   /\ sudo_out = <<Probe.out>>
                   /\ Cardinality(SudoRuns) = 1
                   /\ PromptIdx = {}
           /\ (pc \in {"getpass", "retry"} \/ PromptIdx # {})
                <=> ("sudo-needs-password" \in DOMAIN Probe.out.value)

C4_Witness ==
    /\ pc = "done"
    /\ ProbeDone
    /\ Probe.out.kind = "result"
    /\ DOMAIN Probe.out.value = {"cmd", "stdout", "stderr", "exitcode"}
    /\ Probe.out.value["exitcode"] # 0
    /\ sudo_out = <<Probe.out>>
    /\ PromptIdx = {}

\* C5: a tunnel invocation whose client exited nonzero or wrote to its error
\* channel raises at the launch check; its output never reaches the archive
\* reader and run returns no result.
C5_FailedClientRaises ==
    \A i \in RunIdx :
        ClientFailed(events[i])
            => /\ events[i].out.kind = "error"
               /\ events[i].out.at = "launch"
               /\ ~events[i].decoded
               /\ call.fn = "run" => (pc = "done" /\ outcome = <<events[i].out>>)

\* The client exited zero with a good archive, but wrote a diagnostic.
C5_Witness ==
    /\ pc = "done"
    /\ call.fn = "run"
    /\ events[1].proc.returncode = 0
    /\ events[1].proc.stderr # <<>>
    /\ events[1].proc.stdout = GoodArchive
    /\ outcome[1].kind = "error"

\* C6 as stated: every launch error carries the client's diagnostic text, also
\* when the client exited zero (stated for diagnostics that are valid UTF-8,
\* where the text exists).
C6_LaunchErrorCarriesText ==
    \A i \in RunIdx :
        (ClientFailed(events[i]) /\ Utf8Decode(events[i].proc.stderr).ok)
            => /\ events[i].out.kind = "error"
               /\ events[i].out.msg = << Utf8Decode(events[i].proc.stderr).text >>

\* C7: an archive with one stdout, one stderr and one exitcode member, the last
\* the decimal ASCII of n, makes run return (not raise) a result with those
\* streams and exitcode n as an integer, for n zero, positive or negative.
C7_ArchiveRoundTrip ==
    \A i \in RunIdx :
        LET e == events[i]
            m == e.proc.stdout.members
        IN  (/\ ~ClientFailed(e)
             /\ e.proc.stdout.tar
             /\ Once(m, "stdout") /\ Once(m, "stderr") /\ Once(m, "exitcode"))
                => \A n \in (0 - MaxInt)..MaxInt :
                      DataOf(m, "exitcode") = DecimalAscii(n)
                        => /\ e.out.kind = "result"
                           /\ {"stdout", "stderr", "exitcode"} \subseteq DOMAIN e.out.value
                           /\ e.out.value["stdout"] = DataOf(m, "stdout")
                           /\ e.out.value["stderr"] = DataOf(m, "stderr")
                           /\ e.out.value["exitcode"] = n
                           /\ call.fn = "run" => outcome = <<e.out>>

C7_Witness ==
    /\ pc = "done"
    /\ call.fn = "run"
    /\ outcome[1].kind = "result"
    /\ {"stdout", "stderr", "exitcode"} \subseteq DOMAIN outcome[1].value
    /\ outcome[1].value["exitcode"] = 0 - 1
    /\ outcome[1].value["stdout"] = <<"h", "i">>
    /\ DataOf(events[1].proc.stdout.members, "exitcode") = <<"-", "1">>

\* C8 as stated: an archive without an exitcode member, or with one that is no
\* base-10 integer, makes run raise a decode error.
C8_BadExitcodeRaises ==
    \A i \in RunIdx :
        LET e == events[i]
            m == e.proc.stdout.members
        IN  (/\ ~ClientFailed(e)
             /\ e.proc.stdout.tar
             /\ \/ "exitcode" \notin MemberNames(m)
                \/ ~PyInt(ExtractFile(m, "exitcode")).ok)
                => /\ e.out.kind = "error"
                   /\ e.out.at = "decode"

\* C9 as stated: a result of run has stdout and stderr, empty when the archive
\* had no such member.
C9_MissingStreamsEmpty ==
    \A i \in RunIdx :
        LET e == events[i]
            m == e.proc.stdout.members
        IN  e.out.kind = "result"
                => \A nm \in {"stdout", "stderr"} :
                      nm \notin MemberNames(m)
                        => /\ nm \in DOMAIN e.out.value
                           /\ e.out.value[nm] = <<>>

\* C10: an exception raised by a tunnel invocation ends the call there: it is
\* the last thing the call does (no escalation, prompt or further invocation
\* follows) and it is what sudo and the entry point raise.
C10_ErrorsPropagate ==
    \A i \in RunIdx :
        events[i].out.kind = "error"
            => /\ i = Len(events)
               /\ pc = "done"
               /\ outcome = <<events[i].out>>
               /\ SudoIdx # {} => sudo_out = <<events[i].out>>

\* run_or_sudo, whose probe raised after a failed unprivileged run.
C10_Witness ==
    /\ pc = "done"
    /\ call.fn = "run_or_sudo"
    /\ Len(events) = 3
    /\ events[3].type = "run"
    /\ events[3].out.kind = "error"
    /\ outcome = <<events[3].out>>
    /\ PromptIdx = {}

\* The command was given these arguments and is over.
CliDone == pc \in {"done", "cli_done"} /\ cli.args # <<>> /\ cli.out # <<>>

\* C11: in a sudo whose probe showed the sentinel, a prompt made where there is
\* no terminal ends the call with an error and nothing follows it: no retry.
C11_NoTerminalAborts ==
    \A i \in PromptIdx :
        events[i].tty = FALSE
            => /\ events[i].out.kind = "error"
               /\ Len(events) = i

\* C12: no call blocks for ever: a call in progress, whatever its client
\* process does, is over or can still take a step towards its end.
C12_RunNeverBlocks ==
    pc # "idle" => (pc \in {"done", "cli_done"} \/ ENABLED Next)

\* C13: a command given --sudo-if-needed and an action has run the joined
\* commands through the tunnel, unprivileged first, and ends with the exit code
\* of the last result.
C13_SudoIfNeededRuns ==
    (CliDone /\ cli.args[1].sudo_if_needed /\ ~cli.args[1].sudo
        /\ cli.args[1].actions # <<>>)
        => /\ RunIdx # {}
           /\ events[1].type = "run"
           /\ events[1].script = JoinActions(cli.args[1].actions)
           /\ cli.out[1].kind = "result"

\* C14: no step of run, sudo or run_or_sudo changes the Remote: its address is
\* the one it was constructed with, whatever the calls did; between calls
\* nothing of the last call is left, no result and no password; and what a
\* run() ends with is decoded from its own client process alone, whatever the
\* run before it was given and ended with.
C14_RemoteUnchanged ==
    /\ [][name' = name]_vars
    /\ [](pc = "idle"
            => /\ call = NoCall
               /\ sudo_args = <<>> /\ script = <<>>
               /\ result = <<>> /\ sudo_result = <<>>
               /\ password = <<>> /\ sudo_out = <<>> /\ outcome = <<>>)
    /\ []((pc = "done" /\ call.fn = "run")
            => /\ Len(events) = 1
               /\ events[1].script = call.script
               /\ outcome = << RunOp(call.script, events[1].proc).out >>)

\* A run() given the script of the run() before it ends differently: the
\* earlier one returned a result, this one raises.
C14_Witness ==
    /\ pc = "done"
    /\ call.fn = "run"
    /\ cli.args = <<>>
    /\ prev # <<>>
    /\ prev[1].script = call.script
    /\ prev[1].kind = "result"
    /\ outcome[1].kind = "error"
    /\ name \in RemoteNames

\* C15: the retry invocation of a sudo is `echo <quoted password> | sudo
\* --preserve-env --stdin <wrapped>`: the password typed goes to sudo's standard
\* input, no piece of it sets SUDO_ASKPASS or SUDO_PROMPT, and <wrapped> is the
\* text the probe elevated, with the same bash -c wrapping and the same -u user.
C15_RetrySameWrapped ==
    \A i \in RunIdx :
        (SudoIdx # {} /\ i = SudoAt + 3)
            => LET a == events[SudoAt].args
                   W == WrapScript(a.script, a.shell, a.user)
                   pw == events[SudoAt + 2].out.value
                   retry == events[i].script
                   settings == { "SUDO_PROMPT=\"$tempdir/sudo-needs-password\" ",
                                 "SUDO_ASKPASS=\"/usr/bin/touch\" " }
               IN  /\ Probe.script = <<"SUDO_PROMPT=\"$tempdir/sudo-needs-password\" ",
                                       "SUDO_ASKPASS=\"/usr/bin/touch\" ",
                                       "sudo --preserve-env --askpass ">> \o W
                   /\ retry = <<"echo ">> \o quote(pw)
                                 \o <<" | sudo --preserve-env --stdin ">> \o W
                   /\ \A k \in 1..Len(retry) : retry[k] \notin settings

\* A retry was made for a sudo with the sub-shell wrapping and a target user,
\* with a password that needs quoting.
C15_Witness ==
    /\ pc = "done"
    /\ SudoIdx # {}
    /\ Len(events) = SudoAt + 3
    /\ events[SudoAt + 3].type = "run"
    /\ events[SudoAt].args.shell
    /\ Truthy(events[SudoAt].args.user)
    /\ events[SudoAt + 2].out.value = <<"a", "'", "b">>

\* Where a step stands in the trampoline's log (when it does).
Pos(step) == CHOOSE k \in 1..Len(tramp.log) : tramp.log[k] = step

Has(step) == \E k \in 1..Len(tramp.log) : tramp.log[k] = step

\* C16: a trampoline execution that is over, however the user script ended,
\* has removed the temporary directory and the scratch script file.
C16_CleanupAlwaysReached ==
    tramp.pc \in {"ended", "killed", "aborted"} => tramp.files = {}

\* C17: in every execution the steps that happen happen once and in this
\* order: temporary repository, user script, exitcode file, git add, git
\* commit, git-upload-archive, rm -rf, rm; the exitcode file is the decimal
\* status of the user script, digits only and no newline at its end, and stays
\* so whatever the later steps do.
C17_StepsInOrder ==
    LET order == <<"mktemp -d", "git init", "script", "echo -n", "git add",
                   "git commit", "git-upload-archive", "rm -rf", "rm">>
    IN  /\ \A a \in 1..Len(order), b \in 1..Len(order) :
              (a < b /\ Has(order[b]))
                  => /\ Has(order[a])
                     /\ Pos(order[a]) < Pos(order[b])
        /\ \A j \in 1..Len(tramp.log), k \in 1..Len(tramp.log) :
              tramp.log[j] = tramp.log[k] => j = k
        /\ Has("echo -n")
              => /\ tramp.exitcode # <<>>
                 /\ \A k \in 1..Len(tramp.exitcode[1]) :
                        tramp.exitcode[1][k] \in DigitSet
                 /\ PyInt(tramp.exitcode[1]) = [ok |-> TRUE, val |-> tramp.script.status]
        /\ ~Has("echo -n") => tramp.exitcode = <<>>
        /\ Has("rm -rf") => tramp.pc = "ended" /\ tramp.files = {}

\* The script called exit 3, git commit then failed, and the trampoline went
\* on to its end with 3 in the exitcode file.
C17_Witness ==
    /\ tramp.pc = "ended"
    /\ tramp.script = [kind |-> "exit", status |-> 3]
    /\ ~tramp.committed
    /\ tramp.exitcode = << <<"3">> >>
    /\ Has("git-upload-archive")

\* sub occurs in text as a run of consecutive pieces.
Contains(text, sub) ==
    \E k \in 0..(Len(text) - Len(sub)) : SubSeq(text, k + 1, k + Len(sub)) = sub

\* C18: whatever members the archive has, the cmd entry of the result run
\* returns is the script run was given.
C18_CmdIsScript ==
    \A i \in RunIdx :
        events[i].out.kind = "result"
            => /\ "cmd" \in DOMAIN events[i].out.value
               /\ events[i].out.value["cmd"] = events[i].script

\* C19: the result a sudo or run_or_sudo returns after a password was typed
\* does not hold the password, plain or quoted, in its cmd entry.
C19_PasswordNotInResult ==
    (/\ pc = "done"
     /\ call.fn \in {"sudo", "run_or_sudo"}
     /\ password # <<>>
     /\ outcome # <<>>
     /\ outcome[1].kind = "result")
        => /\ ~Contains(outcome[1].value["cmd"], password[1])
           /\ ~Contains(outcome[1].value["cmd"], quote(password[1]))

====
